---- MODULE Spec2Model ----
(***************************************************************************)
(* A model of mmv/mcp (src/src/main.rs): the batched move of a list of     *)
(* source paths to the destinations a helper process gives for them.       *)
(*                                                                         *)
(* A path is the sequence of its components below the root directory; the  *)
(* root is <<>>.  The file system is a function from the paths that exist  *)
(* to what is there: a directory, or a file with its content.  A file's    *)
(* content is named by the path the file had when the run began, so a      *)
(* content that moved can be told from every other one.  There are no      *)
(* symbolic links and one device.                                          *)
(***************************************************************************)
EXTENDS Integers, Sequences, FiniteSets, TLC

VARIABLES
    fs,      \* the file system: path -> [kind, data]
    fs0,     \* the file system when the run began
    flags,   \* struct Flags
    srcs,    \* work: srcs, the records read from standard input
    dsts,    \* work: dsts, the records the helper wrote
    hstat,   \* exit statuses of the helper processes waited for so far
    ps,      \* work: ps, the sorted (s, t, d) triples
    pc,      \* position in work()
    i,       \* index of the running loop
    out,     \* lines written to standard error
    status,  \* exit status of the process, -1 while it runs
    err,     \* the error reported by err!/require!, if any
    log,     \* the calls of move_path made so far
    stdin,   \* the bytes on standard input, before work() reads them
    text,    \* the string handed to encode_string or decode_string
    move,    \* lib.rs: a Move, its fields data and free
    result,  \* what the last call of a function under study returned
    calls,   \* lib.rs: the calls of Move::add made so far
    child    \* run_multi: the helper process and the two pipes to it

\* the variables of work()
workvars == <<fs, fs0, flags, srcs, dsts, hstat, ps, pc, i, out, status, err, log>>
\* the variables of the functions studied on their own
fnvars == <<stdin, text, move, result, calls, child>>

vars == <<workvars, fnvars>>

----------------------------------------------------------------------------
(* Bounds of the model *)

\* most records on standard input in Spec
MaxPairs == 2
\* most records on standard input in SpecBatch
MaxBatch == 3
\* most characters of a string in SpecCodec
MaxStr == 2
\* most calls of Move::add in SpecMove
MaxAdds == 3
\* most bytes on standard input in SpecStdin
MaxBytes == 3
\* most records given to the helper in SpecPipe
MaxRecs == 4
\* most records a pipe or the BufWriter holds in SpecPipe
MaxCap == 2

----------------------------------------------------------------------------
(* Paths *)

Parent(p) == SubSeq(p, 1, Len(p) - 1)

\* a is b or an ancestor of b
IsPrefix(a, b) == Len(a) <= Len(b) /\ SubSeq(b, 1, Len(a)) = a

StrictAncestor(a, b) == Len(a) < Len(b) /\ IsPrefix(a, b)

\* the paths that are p or an ancestor of p, the root excluded
Prefixes(p) == {SubSeq(p, 1, k) : k \in 1..Len(p)}

\* Path::components().count() of an absolute path: RootDir and the names
ComponentsCount(p) == 1 + Len(p)

\* env::current_dir() of the run
Cwd == <<>>

\* env::temp_dir()
TempBase == <<"tmp">>

\* the directory tempdir() creates: a fresh name below env::temp_dir()
ScratchRoot == TempBase \o <<"T">>

\* XDG_CACHE_HOME / MMV_NAME / nanoseconds since the epoch
CacheBase == <<"cache">>
CacheDir == CacheBase \o <<"mmv", "ts">>

RECURSIVE NormalizeFrom(_, _)
NormalizeFrom(ret, rest) ==
    IF rest = <<>> THEN ret
    ELSE LET c == Head(rest) IN
         IF c = "." THEN NormalizeFrom(ret, Tail(rest))
         ELSE IF c = ".."
              THEN NormalizeFrom(IF ret = <<>> THEN ret ELSE Parent(ret), Tail(rest))
              ELSE NormalizeFrom(Append(ret, c), Tail(rest))

\* normalize_path of cwd joined with the relative record d
normalize_path(d) == NormalizeFrom(<<>>, Cwd \o d)

----------------------------------------------------------------------------
(* The file system calls: each gives [ok, fs], fs unchanged when it fails *)

Dir == [kind |-> "dir", data |-> <<>>]
File(c) == [kind |-> "file", data |-> c]

Exists(f, p) == p \in DOMAIN f
IsDir(f, p) == Exists(f, p) /\ f[p].kind = "dir"
IsFile(f, p) == Exists(f, p) /\ f[p].kind = "file"
Children(f, p) == {q \in DOMAIN f : q # <<>> /\ Parent(q) = p}

Put(f, p, v) == [q \in DOMAIN f \cup {p} |-> IF q = p THEN v ELSE f[q]]
Without(f, S) == [q \in DOMAIN f \ S |-> f[q]]

Fail(f) == [ok |-> FALSE, fs |-> f]
Done(f) == [ok |-> TRUE, fs |-> f]

create_dir(f, p) ==
    IF p # <<>> /\ ~Exists(f, p) /\ IsDir(f, Parent(p))
    THEN Done(Put(f, p, Dir)) ELSE Fail(f)

remove_dir(f, p) ==
    IF p # <<>> /\ IsDir(f, p) /\ Children(f, p) = {}
    THEN Done(Without(f, {p})) ELSE Fail(f)

\* fs::copy: the target is created, or truncated and rewritten when it is a file
copy(f, from, to) ==
    IF /\ IsFile(f, from)
       /\ to # <<>>
       /\ \/ IsFile(f, to)
          \/ ~Exists(f, to) /\ IsDir(f, Parent(to))
    THEN Done(Put(f, to, File(f[from].data))) ELSE Fail(f)

remove_file(f, p) ==
    IF IsFile(f, p) THEN Done(Without(f, {p})) ELSE Fail(f)

create_dir_all(f, p) ==
    IF \A q \in Prefixes(p) : ~IsFile(f, q)
    THEN Done([q \in DOMAIN f \cup Prefixes(p) |-> IF q \in DOMAIN f THEN f[q] ELSE Dir])
    ELSE Fail(f)

remove_dir_all(f, p) ==
    IF p # <<>> /\ IsDir(f, p)
    THEN Done(Without(f, {q \in DOMAIN f : IsPrefix(p, q)})) ELSE Fail(f)

\* fs::canonicalize: the source has to exist
canonicalize(f, s) ==
    LET c == normalize_path(s) IN
    IF Exists(f, c) THEN [ok |-> TRUE, path |-> c] ELSE [ok |-> FALSE, path |-> c]

\* a bug: the TempDir is forgotten, not dropped
drop_nothing(f) == f

\* TempDir::drop: the directory and what is left in it go, errors are ignored
drop_tempdir(f) == remove_dir_all(f, ScratchRoot).fs

----------------------------------------------------------------------------
(* Building the rename set: work(), lines 144-172 *)

\* DefaultHasher of a canonical source, as decimal text.  The model keeps the
\* 64-bit values of the paths it uses apart, as SipHash does for them.
HashName(s) ==
    CASE s = <<"d">> -> "h_d"
      [] s = <<"e">> -> "h_e"
      [] s = <<"d", "f">> -> "h_d_f"
      [] s = <<"d", "g">> -> "h_d_g"
      [] s = <<"e", "f">> -> "h_e_f"
      [] s = <<"tmp">> -> "h_tmp"
      [] s = <<"cache">> -> "h_cache"
      [] OTHER -> "h_other"

\* a bug: every source gets the same scratch name
ScratchPathShared(s) == ScratchRoot \o <<"h_other">>

\* dir.path().join(&file)
ScratchPath(s) == ScratchRoot \o <<HashName(s)>>

\* a bug: no record is ever taken for a duplicate
SeenNever(set, x) == FALSE

\* !HashSet::insert: x was in the set already
Seen(set, x) == x \in set

Min(a, b) == IF a <= b THEN a ELSE b

\* the closure of lines 147-169 applied to the zipped records in order; the
\* first Err met ends the process in require!
RECURSIVE BuildFrom(_, _, _, _, _, _, _)
BuildFrom(f, ss, ds, k, uniq_srcs, uniq_dsts, acc) ==
    IF k > Min(Len(ss), Len(ds))
    THEN [err |-> "none", path |-> <<>>, ps |-> acc]
    ELSE LET c == canonicalize(f, ss[k])
             d == normalize_path(ds[k])
         IN  IF ~c.ok
             THEN [err |-> "SourceMissing", path |-> c.path, ps |-> <<>>]
             ELSE IF Seen(uniq_srcs, c.path)
             THEN [err |-> "DuplicateSource", path |-> c.path, ps |-> <<>>]
             ELSE IF Seen(uniq_dsts, d)
             THEN [err |-> "DuplicateDestination", path |-> d, ps |-> <<>>]
             ELSE BuildFrom(f, ss, ds, k + 1, uniq_srcs \cup {c.path},
                            uniq_dsts \cup {d},
                            Append(acc, [s |-> c.path, t |-> ScratchPath(c.path), d |-> d]))

\* a bug: the sort key without Reverse, shallowest source first
KeyBeforeAscending(a, x) == ComponentsCount(a.s) <= ComponentsCount(x.s)

\* whether a stays before x, met after it, under Reverse(components().count())
KeyBefore(a, x) == ComponentsCount(a.s) >= ComponentsCount(x.s)

\* sorted_by_key: a stable sort
RECURSIVE SortedByKey(_)
SortedByKey(xs) ==
    IF xs = <<>> THEN <<>>
    ELSE LET n == Len(xs)
             acc == SortedByKey(SubSeq(xs, 1, n - 1))
             x == xs[n]
             m == Cardinality({j \in 1..Len(acc) : KeyBefore(acc[j], x)})
         IN  SubSeq(acc, 1, m) \o <<x>> \o SubSeq(acc, m + 1, Len(acc))

BuildPairs(f, ss, ds) ==
    LET r == BuildFrom(f, ss, ds, 1, {}, {}, <<>>)
    IN  [r EXCEPT !.ps = SortedByKey(r.ps)]

\* dsts.len() != srcs.len(), line 132
LengthsDiffer(ss, ds) == Len(ds) # Len(ss)

\* a bug: the helper's exit status is not looked at
SuccessAny(st) == TRUE

\* ExitStatus::success
Success(st) == st = 0

----------------------------------------------------------------------------
(* Moving one path: move_path and copy_and_remove_file_or_dir *)

Verb(fl) == IF fl.mcp THEN "copied" ELSE "renamed"
Line(verb, from, to) == [verb |-> verb, from |-> from, to |-> to]

\* a bug: the origin is removed in the copy variant too
copy_and_remove_always(f, fl, from, to) ==
    IF ~Exists(f, from) THEN Fail(f)
    ELSE IF IsDir(f, from)
    THEN LET c == create_dir(f, to) IN
         IF ~c.ok THEN Fail(f)
         ELSE LET r == remove_dir(c.fs, from) IN
              IF r.ok THEN r ELSE Fail(c.fs)
    ELSE LET c == copy(f, from, to) IN
         IF ~c.ok THEN Fail(f)
         ELSE LET r == remove_file(c.fs, from) IN
              IF r.ok THEN r ELSE Fail(c.fs)

copy_and_remove_file_or_dir(f, fl, from, to) ==
    IF ~Exists(f, from) THEN Fail(f)
    ELSE IF IsDir(f, from)
    THEN LET c == create_dir(f, to) IN
         IF ~c.ok THEN Fail(f)
         ELSE IF fl.mcp THEN c ELSE
              LET r == remove_dir(c.fs, from) IN
              IF r.ok THEN r ELSE Fail(c.fs)
    ELSE LET c == copy(f, from, to) IN
         IF ~c.ok THEN Fail(f)
         ELSE IF fl.mcp THEN c ELSE
              LET r == remove_file(c.fs, from) IN
              IF r.ok THEN r ELSE Fail(c.fs)

\* [ok, fs, lines]: ok is FALSE when err! ended the process
move_path(f, fl, from, to) ==
    LET r == IF fl.dryrun THEN Done(f) ELSE copy_and_remove_file_or_dir(f, fl, from, to)
    IN  [ok |-> r.ok, fs |-> r.fs,
         lines |-> IF r.ok /\ fl.verbose THEN <<Line(Verb(fl), from, to)>> ELSE <<>>]

\* a bug: a source is passed over without a copy
backup_src_skip(f, fl, x) == [ok |-> TRUE, exit |-> FALSE, fs |-> f, lines |-> <<>>]

\* backup_srcs for one source x, the working directory being cache_dir
backup_src(f, fl, x) ==
    IF ~Exists(f, x) THEN [ok |-> FALSE, exit |-> TRUE, fs |-> f, lines |-> <<>>]
    ELSE IF IsDir(f, x)
    THEN LET c == create_dir_all(f, CacheDir \o x) IN
         [ok |-> c.ok, exit |-> FALSE, fs |-> c.fs,
          lines |-> IF c.ok /\ fl.verbose
                    THEN <<Line("created directory", CacheDir \o x, <<>>)>> ELSE <<>>]
    ELSE LET c == IF x = <<>> THEN Done(f) ELSE create_dir_all(f, CacheDir \o Parent(x))
             l1 == IF c.ok /\ fl.verbose /\ x # <<>>
                   THEN <<Line("created directory", CacheDir \o Parent(x), <<>>)>> ELSE <<>>
         IN  IF ~c.ok THEN [ok |-> FALSE, exit |-> FALSE, fs |-> f, lines |-> <<>>]
             ELSE LET k == copy(c.fs, x, CacheDir \o x) IN
                  [ok |-> k.ok, exit |-> FALSE, fs |-> k.fs,
                   lines |-> IF k.ok /\ fl.verbose
                             THEN l1 \o <<Line("copied", x, CacheDir \o x)>> ELSE l1]

----------------------------------------------------------------------------
(* The states a run starts in *)

\* what is at and below the top-level name t
TopEntries(t, c) ==
    LET here == IF c = "none" THEN {}
                ELSE IF c \in {"file", "dir"} THEN {<<t>>}
                ELSE IF c = "dirf" THEN {<<t>>, <<t, "f">>}
                ELSE {<<t>>, <<t, "f">>, <<t, "g">>}
    IN  [q \in here |-> IF c = "file" \/ Len(q) = 2 THEN File(q) ELSE Dir]

\* the root, an empty temporary area and the cache root, always there
BaseFs == [q \in {<<>>, TempBase, CacheBase} |-> Dir]

MakeFs(cd, ce) == TopEntries("d", cd) @@ TopEntries("e", ce) @@ BaseFs

RECURSIVE SeqsOfLen(_, _)
SeqsOfLen(S, n) ==
    IF n = 0 THEN {<<>>}
    ELSE {Append(q, x) : q \in SeqsOfLen(S, n - 1), x \in S}

SeqsUpTo(S, n) == UNION {SeqsOfLen(S, k) : k \in 0..n}

\* Flags::parse: mcp never backs up; the wire format (-0, -e) is not part of
\* this model, whose records are already split and decoded
FlagSets(Verbose) ==
    {fl \in [backup : BOOLEAN, dryrun : BOOLEAN, encode : {FALSE},
             individual : BOOLEAN, mcp : BOOLEAN, nul : {FALSE}, verbose : Verbose] :
        fl.mcp => ~fl.backup}

NoErr == [kind |-> "none", path |-> <<>>]

\* nothing on standard input yet, no string, no Move, no call made
None == [some |-> FALSE, vec |-> <<>>]
NoMove == [data |-> None, free |-> 0]
NoRet == [fn |-> "none"]
\* no helper was spawned
NoChild == [at |-> "none"]
FnIdle ==
    /\ stdin = <<>>
    /\ text = <<>>
    /\ move = NoMove
    /\ result = NoRet
    /\ calls = <<>>
    /\ child = NoChild

\* the exit statuses a helper process may end with
ExitStatuses == {0, 2}

InitWith(FsSet, SrcSet, n, Fl) ==
    /\ fs0 \in FsSet
    /\ fs = fs0
    /\ flags \in Fl
    /\ srcs \in SeqsUpTo(SrcSet, n)
    /\ dsts = <<>>
    /\ hstat = <<>>
    /\ ps = <<>>
    /\ pc = "helper"
    /\ i = 1
    /\ out = <<>>
    /\ status = -1
    /\ err = NoErr
    /\ log = <<>>
    /\ FnIdle

SrcRaw == {<<"d">>, <<"e">>, <<"d", "f">>, <<"tmp">>}
DstRaw == {<<"d">>, <<"e">>, <<"d", "g">>, <<"e", "f">>}
FsWide == {MakeFs(cd, ce) : cd \in {"file", "dirf"},
                            ce \in {"none", "file", "dir"}}

Init == InitWith(FsWide, SrcRaw, MaxPairs, FlagSets({FALSE}))

SrcBatch == {<<"d", "f">>, <<"d", "g">>, <<"e">>}
DstBatch == {<<"d", "f">>, <<"d", "g">>, <<"e">>, <<"d", "..", "e">>}
FsBatch == {MakeFs("dirfg", "file")}

InitBatch == InitWith(FsBatch, SrcBatch, MaxBatch, FlagSets({FALSE}))

----------------------------------------------------------------------------
(* The steps of work() *)

\* process::exit(1) from err!, require! or a failed helper: nothing is dropped
Exit(kind, path) ==
    /\ pc' = "exit"
    /\ status' = 1
    /\ err' = [kind |-> kind, path |-> path]

\* work() returns Err through `?`: dir is dropped, then main's require! exits
ReturnErr(f, kind, path) ==
    /\ fs' = drop_tempdir(f)
    /\ Exit(kind, path)

\* run_multi, lines 319-389: the helper writes the records ds and ends with st
RunMulti(DstSet, n) ==
    /\ pc = "helper"
    /\ ~flags.individual
    /\ \E ds \in SeqsUpTo(DstSet, n), st \in ExitStatuses :
        /\ dsts' = ds
        /\ hstat' = <<st>>
        /\ IF Success(st)
           THEN pc' = "plan" /\ UNCHANGED <<status, err>>
           ELSE Exit("HelperNonZero", <<>>)
    /\ UNCHANGED <<fs, fs0, flags, srcs, ps, i, out, log>>
    /\ UNCHANGED fnvars

\* run_indiv, lines 266-317: one turn of the loop (the helper writes d and
\* ends with st), or the end of the loop
RunIndiv(DstSet) ==
    /\ pc = "helper"
    /\ flags.individual
    /\ IF i > Len(srcs)
       THEN /\ pc' = "plan"
            /\ i' = 1
            /\ UNCHANGED <<dsts, hstat, status, err>>
       ELSE \E d \in DstSet, st \in ExitStatuses :
            /\ dsts' = Append(dsts, d)
            /\ hstat' = Append(hstat, st)
            /\ IF Success(st)
               THEN /\ i' = i + 1
                    /\ UNCHANGED <<pc, status, err>>
               ELSE /\ Exit("HelperNonZero", <<>>)
                    /\ UNCHANGED i
    /\ UNCHANGED <<fs, fs0, flags, srcs, ps, out, log>>
    /\ UNCHANGED fnvars

\* lines 132-172: the count of the records, tempdir(), then the sorted triples
Plan ==
    /\ pc = "plan"
    /\ IF LengthsDiffer(srcs, dsts)
       THEN /\ Exit("SourceDestinationCount", <<>>)
            /\ UNCHANGED <<fs, out, ps>>
       ELSE LET r == create_dir(fs, ScratchRoot) IN
            IF ~r.ok
            THEN /\ Exit("FilesystemError", ScratchRoot)
                 /\ UNCHANGED <<fs, out, ps>>
            ELSE /\ fs' = r.fs
                 /\ out' = IF flags.verbose
                           THEN Append(out, Line("created directory", ScratchRoot, <<>>))
                           ELSE out
                 /\ LET b == BuildPairs(r.fs, srcs, dsts) IN
                    IF b.err # "none"
                    THEN /\ Exit(b.err, b.path)
                         /\ UNCHANGED ps
                    ELSE /\ ps' = b.ps
                         /\ pc' = "backup"
                         /\ UNCHANGED <<status, err>>
    /\ UNCHANGED <<fs0, flags, srcs, dsts, hstat, i, log>>
    /\ UNCHANGED fnvars

\* where the run goes when a loop over ps is to start
Enter(loop, after) == IF ps = <<>> THEN after ELSE loop
Exec == IF flags.dryrun THEN Enter("dryrun", "cleanup") ELSE Enter("phase1", "cleanup")

\* lines 174-197: the backup directory
BackupBegin ==
    /\ pc = "backup"
    /\ IF ~flags.backup
       THEN /\ pc' = Exec
            /\ UNCHANGED <<fs, out, status, err>>
       ELSE LET r == create_dir_all(fs, CacheDir) IN
            IF r.ok
            THEN /\ fs' = r.fs
                 /\ out' = IF flags.verbose
                           THEN Append(out, Line("created directory", CacheDir, <<>>))
                           ELSE out
                 /\ pc' = Enter("backup_srcs", Exec)
                 /\ UNCHANGED <<status, err>>
            ELSE /\ ReturnErr(fs, "FilesystemError", CacheDir)
                 /\ UNCHANGED out
    /\ i' = 1
    /\ UNCHANGED <<fs0, flags, srcs, dsts, hstat, ps, log>>
    /\ UNCHANGED fnvars

\* lines 198 and 230-264: one turn of the loop of backup_srcs
BackupSrc ==
    /\ pc = "backup_srcs"
    /\ LET r == backup_src(fs, flags, ps[i].s) IN
       IF r.ok
       THEN /\ fs' = r.fs
            /\ out' = out \o r.lines
            /\ i' = IF i = Len(ps) THEN 1 ELSE i + 1
            /\ pc' = IF i = Len(ps) THEN Exec ELSE pc
            /\ UNCHANGED <<status, err>>
       ELSE /\ IF r.exit
               THEN fs' = r.fs /\ Exit("FilesystemError", ps[i].s)
               ELSE ReturnErr(r.fs, "FilesystemError", ps[i].s)
            /\ out' = out \o r.lines
            /\ UNCHANGED i
    /\ UNCHANGED <<fs0, flags, srcs, dsts, hstat, ps, log>>
    /\ UNCHANGED fnvars

\* lines 202-210: one turn of the dry-run loop
DryRunLine ==
    /\ pc = "dryrun"
    /\ out' = Append(out, Line(Verb(flags), ps[i].s, ps[i].d))
    /\ i' = IF i = Len(ps) THEN 1 ELSE i + 1
    /\ pc' = IF i = Len(ps) THEN "cleanup" ELSE pc
    /\ UNCHANGED <<fs, fs0, flags, srcs, dsts, hstat, ps, status, err, log>>
    /\ UNCHANGED fnvars

\* one call of move_path in a loop that goes to `after` when it ends
MoveStep(phase, k, from, to, after) ==
    LET r == move_path(fs, flags, from, to) IN
    /\ fs' = r.fs
    /\ out' = out \o r.lines
    /\ log' = Append(log, [phase |-> phase, k |-> k, ok |-> r.ok])
    /\ IF r.ok
       THEN /\ i' = IF i = Len(ps) THEN 1 ELSE i + 1
            /\ pc' = IF i = Len(ps) THEN after ELSE pc
            /\ UNCHANGED <<status, err>>
       ELSE /\ Exit("FilesystemError", from)
            /\ UNCHANGED i

\* lines 212-214: sources to scratch, in the order of ps
Phase1Move ==
    /\ pc = "phase1"
    /\ MoveStep(1, i, ps[i].s, ps[i].t, "phase2")
    /\ UNCHANGED <<fs0, flags, srcs, dsts, hstat, ps>>
    /\ UNCHANGED fnvars

\* lines 215-217: scratch to destinations, in the reverse order of ps
Phase2Move ==
    /\ pc = "phase2"
    /\ LET k == Len(ps) + 1 - i IN MoveStep(2, k, ps[k].t, ps[k].d, "cleanup")
    /\ UNCHANGED <<fs0, flags, srcs, dsts, hstat, ps>>
    /\ UNCHANGED fnvars

\* lines 220-228: the backup goes, work() returns Ok and dir is dropped
Cleanup ==
    /\ pc = "cleanup"
    /\ LET r == IF flags.backup THEN remove_dir_all(fs, CacheDir) ELSE Done(fs) IN
       IF r.ok
       THEN /\ fs' = drop_tempdir(r.fs)
            /\ out' = IF flags.backup /\ flags.verbose
                      THEN Append(out, Line("removing directory", CacheDir, <<>>))
                      ELSE out
            /\ pc' = "done"
            /\ status' = 0
            /\ UNCHANGED err
       ELSE /\ ReturnErr(r.fs, "FilesystemError", CacheDir)
            /\ UNCHANGED out
    /\ UNCHANGED <<fs0, flags, srcs, dsts, hstat, ps, i, log>>
    /\ UNCHANGED fnvars

NextWith(DstSet, n) ==
    \/ RunMulti(DstSet, n)
    \/ RunIndiv(DstSet)
    \/ Plan
    \/ BackupBegin
    \/ BackupSrc
    \/ DryRunLine
    \/ Phase1Move
    \/ Phase2Move
    \/ Cleanup

Next == NextWith(DstRaw, MaxPairs)

Spec == Init /\ [][Next]_vars

\* the runs of Spec with -v given
InitVerbose == InitWith(FsWide, SrcRaw, MaxPairs, FlagSets({TRUE}))

SpecVerbose == InitVerbose /\ [][Next]_vars

NextBatch == NextWith(DstBatch, MaxBatch)

SpecBatch == InitBatch /\ [][NextBatch]_vars

----------------------------------------------------------------------------
(* encode_string and decode_string, main.rs lines 391-434.  A string is the *)
(* sequence of its characters.                                              *)

Backslash == "\\"
Newline == "\n"
Tab == "\t"
Nul == "NUL"

\* the characters strings are made of: the four above and the letters n, t
Chars == {Backslash, Newline, Tab, Nul, "n", "t"}

\* a bug: a backslash is written as it is
EscapeNewlineOnly(c) ==
    IF c = Newline THEN <<Backslash, "n">> ELSE <<c, Nul>>

\* the two characters encode_string's match gives for c, lines 394-398
Escape(c) ==
    IF c = Backslash THEN <<Backslash, Backslash>>
    ELSE IF c = Newline THEN <<Backslash, "n">>
    ELSE <<c, Nul>>

\* lines 399-402: of the two, a NUL in the second place is left out
EncodeChar(c) ==
    LET cs == Escape(c) IN
    IF cs[2] = Nul THEN <<cs[1]>> ELSE cs

RECURSIVE EncodeFrom(_, _)
EncodeFrom(s, k) ==
    IF k > Len(s) THEN <<>> ELSE EncodeChar(s[k]) \o EncodeFrom(s, k + 1)

encode_string(s) == EncodeFrom(s, 1)

\* decode_string from character k on, pv as in the code, acc collected so
\* far; ok is FALSE when err! ended the process
RECURSIVE DecodeFrom(_, _, _, _)
DecodeFrom(s, k, pv, acc) ==
    IF k > Len(s) THEN [ok |-> TRUE, str |-> acc]
    ELSE IF pv
    THEN IF s[k] = Backslash THEN DecodeFrom(s, k + 1, FALSE, Append(acc, Backslash))
         ELSE IF s[k] = "n" THEN DecodeFrom(s, k + 1, FALSE, Append(acc, Newline))
         ELSE [ok |-> FALSE, str |-> <<>>]
    ELSE IF s[k] = Backslash THEN DecodeFrom(s, k + 1, TRUE, acc)
         ELSE DecodeFrom(s, k + 1, FALSE, Append(acc, s[k]))

decode_string(s) == DecodeFrom(s, 1, FALSE, <<>>)

\* struct Flags with every flag off
NoFlags ==
    [backup |-> FALSE, dryrun |-> FALSE, encode |-> FALSE, individual |-> FALSE,
     mcp |-> FALSE, nul |-> FALSE, verbose |-> FALSE]

\* work() is not running: the state of a function studied on its own
WorkIdle(Fl, at) ==
    /\ fs0 = BaseFs
    /\ fs = fs0
    /\ flags \in Fl
    /\ srcs = <<>>
    /\ dsts = <<>>
    /\ hstat = <<>>
    /\ ps = <<>>
    /\ pc = at
    /\ i = 1
    /\ out = <<>>
    /\ status = -1
    /\ err = NoErr
    /\ log = <<>>

\* two records, as run_multi has them when -e is given
InitCodec ==
    /\ WorkIdle({[NoFlags EXCEPT !.encode = TRUE]}, "codec")
    /\ stdin = <<>>
    /\ text \in SeqsOfLen(SeqsUpTo(Chars, MaxStr), 2)
    /\ move = NoMove
    /\ result = NoRet
    /\ calls = <<>>
    /\ child = NoChild

\* the loops over the records, lines 341 and 372-380
EncodeAll(q) == [k \in DOMAIN q |-> encode_string(q[k])]
DecodeAll(q) == [k \in DOMAIN q |-> decode_string(q[k])]

\* lines 340-351: the records are encoded for the helper
Encode ==
    /\ result.fn = "none"
    /\ result' = [fn |-> "encode_string", arg |-> text, val |-> EncodeAll(text)]
    /\ UNCHANGED <<workvars, stdin, text, move, calls, child>>

\* lines 372-380: what a helper wrote is decoded, here the encoded records
\* as they were given to it
DecodeEncoded ==
    /\ result.fn = "encode_string"
    /\ result' = [fn |-> "round_trip", arg |-> result.val,
                  val |-> DecodeAll(result.val)]
    /\ UNCHANGED <<workvars, stdin, text, move, calls, child>>

\* lines 372-380: what a helper wrote is decoded, here any two records
Decode ==
    /\ result.fn = "none"
    /\ result' = [fn |-> "decode_string", arg |-> text, val |-> DecodeAll(text)]
    /\ UNCHANGED <<workvars, stdin, text, move, calls, child>>

NextCodec == Encode \/ DecodeEncoded \/ Decode

SpecCodec == InitCodec /\ [][NextCodec]_vars

----------------------------------------------------------------------------
(* Move of lib.rs: a trie of path components kept in a vector of nodes.  A  *)
(* path is given as its segments between slashes; node indices count from   *)
(* 0 as in the code, and an Option<NonZeroUsize> is 0 when it is None.      *)

Some(v) == [some |-> TRUE, vec |-> v]

\* Path::components from segment k on: a "." after the first place is no
\* component
RECURSIVE ComponentsFrom(_, _)
ComponentsFrom(p, k) ==
    IF k > Len(p) THEN <<>>
    ELSE IF p[k] = "." /\ k > 1 THEN ComponentsFrom(p, k + 1)
    ELSE <<p[k]>> \o ComponentsFrom(p, k + 1)

Components(p) == ComponentsFrom(p, 1)

\* data.get_unchecked(n) and the store through get_unchecked_mut(n)
At(data, n) == data[n + 1]
SetAt(data, n, node) == [data EXCEPT ![n + 1] = node]

\* FullNode::default() with NodeInfo::default()
DefaultNode == [info |-> [cur |-> <<>>, dst |-> 0, src |-> 0], kids |-> {}]
\* FreeNode { next: None }
FreeNode == [next |-> 0]

\* a bug: no child is ever found
KidNever(node, part) == 0

\* node.kids.get_mut(part).copied(), 0 when there is none
Kid(node, part) ==
    IF \E e \in node.kids : e[1] = part
    THEN (CHOOSE e \in node.kids : e[1] = part)[2]
    ELSE 0

\* kids.insert(part, idx)
Insert(kids, part, idx) == {e \in kids : e[1] # part} \cup {<<part, idx>>}

\* lines 165-174: the last node that exists along parts, from part k on
RECURSIVE Walk(_, _, _, _)
Walk(data, parts, k, root) ==
    IF k > Len(parts) THEN [k |-> k, root |-> root]
    ELSE LET next == Kid(At(data, root), parts[k]) IN
         IF next # 0 THEN Walk(data, parts, k + 1, next)
         ELSE [k |-> k, root |-> root]

NoPrev == [some |-> FALSE, part |-> "", idx |-> 0]

\* lines 180-189: a free node is taken from the free list or pushed
Retrieve(data, free) ==
    IF free # 0
    THEN [data |-> data, idx |-> free, free |-> At(data, free).next]
    ELSE [data |-> Append(data, FreeNode), idx |-> Len(data), free |-> free]

\* lines 177-203: nodes for parts[k..n], the last part first
RECURSIVE Construct(_, _, _, _, _, _, _)
Construct(data, free, parts, k, n, prev, leaf) ==
    IF n < k THEN [data |-> data, free |-> free, prev |-> prev, leaf |-> leaf]
    ELSE LET r == Retrieve(data, free)
             node == [info |-> [cur |-> SubSeq(parts, 1, n), dst |-> 0, src |-> 0],
                      kids |-> IF prev.some THEN {<<prev.part, prev.idx>>} ELSE {}]
         IN  Construct(SetAt(r.data, r.idx, node), r.free, parts, k, n - 1,
                       [some |-> TRUE, part |-> parts[n], idx |-> r.idx],
                       IF prev.some THEN leaf ELSE r.idx)

\* Move::get, lines 161-213
get(data, free, path) ==
    LET parts == Components(path)
        w == Walk(data, parts, 1, 0)
        c == Construct(data, free, parts, w.k, Len(parts), NoPrev, w.root)
        up == At(c.data, w.root)
    IN  [data |-> IF c.prev.some
                  THEN SetAt(c.data, w.root,
                             [up EXCEPT !.kids = Insert(up.kids, c.prev.part, c.prev.idx)])
                  ELSE c.data,
         free |-> c.free,
         leaf |-> c.leaf]

\* what add leaves in self when it does not reach lines 151-152
Taken == [data |-> None, free |-> 0]

\* Move::add, lines 115-155: [move, ret], ret being Ok, DupSrc, DupDst or
\* panic (an unwrap of None)
add(mv, src, dst) ==
    IF ~mv.data.some THEN [move |-> mv, ret |-> "panic"]
    ELSE
    LET data == IF mv.data.vec = <<>> THEN <<DefaultNode>> ELSE mv.data.vec
        s == get(data, mv.free, src)
        d == get(s.data, s.free, dst)
        src_node == s.leaf
        dst_node == d.leaf
    IN  IF At(d.data, src_node).info.dst # 0 THEN [move |-> Taken, ret |-> "DupSrc"]
        ELSE IF dst_node = 0 THEN [move |-> Taken, ret |-> "panic"]
        ELSE
        LET d1 == SetAt(d.data, src_node,
                        [At(d.data, src_node) EXCEPT !.info.dst = dst_node])
        IN  IF At(d1, dst_node).info.src # 0 THEN [move |-> Taken, ret |-> "DupDst"]
            ELSE IF src_node = 0 THEN [move |-> Taken, ret |-> "panic"]
            ELSE [move |-> [data |-> Some(SetAt(d1, dst_node,
                                [At(d1, dst_node) EXCEPT !.info.src = src_node])),
                            free |-> d.free],
                  ret |-> "Ok"]

\* the paths given to Move::add: the empty path, a, a/b and a/./b
LibPaths == {<<>>, <<"a">>, <<"a", "b">>, <<"a", ".", "b">>}

\* Move::new(), lines 104-109
InitMove ==
    /\ WorkIdle({NoFlags}, "lib")
    /\ stdin = <<>>
    /\ text = <<>>
    /\ move = [data |-> Some(<<>>), free |-> 0]
    /\ result = NoRet
    /\ calls = <<>>
    /\ child = NoChild

\* one call of Move::add, by a caller that goes on after an error and that
\* catches a panic
Add ==
    /\ Len(calls) < MaxAdds
    /\ \E src, dst \in LibPaths :
        LET r == add(move, src, dst) IN
        /\ move' = r.move
        /\ result' = [fn |-> "add", ret |-> r.ret]
        /\ calls' = Append(calls, [src |-> src, dst |-> dst, ret |-> r.ret, before |-> move])
    /\ UNCHANGED <<workvars, stdin, text, child>>

NextMove == Add

SpecMove == InitMove /\ [][NextMove]_vars

----------------------------------------------------------------------------
(* Reading the records from standard input: work(), lines 113-123.  A byte  *)
(* is its number: 0 is NUL, 10 the newline, 100 and 101 the letters d, e.   *)

\* is_terminal, lines 504-506
is_terminal(nul, b) == b = 0 + 10 * (IF ~nul THEN 1 ELSE 0)

\* group_by(is_terminal) and filter(|(x, _)| !x), lines 114-119: the runs of
\* bytes that are no terminators, from byte k on; cur is the run being read
RECURSIVE RecordsFrom(_, _, _, _)
RecordsFrom(nul, bytes, k, cur) ==
    IF k > Len(bytes) THEN (IF cur = <<>> THEN <<>> ELSE <<cur>>)
    ELSE IF is_terminal(nul, bytes[k])
    THEN (IF cur = <<>> THEN <<>> ELSE <<cur>>) \o RecordsFrom(nul, bytes, k + 1, <<>>)
    ELSE RecordsFrom(nul, bytes, k + 1, Append(cur, bytes[k]))

Records(nul, bytes) == RecordsFrom(nul, bytes, 1, <<>>)

\* String::from_utf8 and PathBuf::from of a record: the empty path, the
\* names d and e, and one name for every other record, which names nothing
\* that exists
PathOfRecord(rec) ==
    CASE rec = <<>> -> <<>>
      [] rec = <<100>> -> <<"d">>
      [] rec = <<101>> -> <<"e">>
      [] OTHER -> <<"other">>

StdinBytes == {0, 10, 100, 101}

FlagsStdin == {[fl EXCEPT !.nul = b] : fl \in FlagSets({FALSE}), b \in BOOLEAN}

\* work() is about to read standard input; d and e are files
InitStdin ==
    /\ fs0 = MakeFs("file", "file")
    /\ fs = fs0
    /\ flags \in FlagsStdin
    /\ srcs = <<>>
    /\ dsts = <<>>
    /\ hstat = <<>>
    /\ ps = <<>>
    /\ pc = "read"
    /\ i = 1
    /\ out = <<>>
    /\ status = -1
    /\ err = NoErr
    /\ log = <<>>
    /\ stdin \in SeqsUpTo(StdinBytes, MaxBytes)
    /\ text = <<>>
    /\ move = NoMove
    /\ result = NoRet
    /\ calls = <<>>
    /\ child = NoChild

\* lines 113-123: the records are collected
ReadStdin ==
    /\ pc = "read"
    /\ srcs' = [k \in DOMAIN Records(flags.nul, stdin) |->
                    PathOfRecord(Records(flags.nul, stdin)[k])]
    /\ pc' = "helper"
    /\ UNCHANGED <<fs, fs0, flags, dsts, hstat, ps, i, out, status, err, log>>
    /\ UNCHANGED fnvars

NextStdin == ReadStdin \/ NextWith(DstRaw, MaxPairs)

SpecStdin == InitStdin /\ [][NextStdin]_vars

----------------------------------------------------------------------------
(* run_multi, lines 319-389, with the helper as a process of its own.  A    *)
(* record with its terminator is the unit of what a pipe or the BufWriter   *)
(* holds.  The helper is one that reads a record, writes a record for it    *)
(* and goes on to the next, and ends at end of input.                       *)

\* the records given to the helper: the names d and e as bytes
PipeRecords == {<<100>>, <<101>>}

\* the helper just spawned, lines 326-333: both pipes empty and open
Spawned(capin, capout, capbuf) ==
    [at |-> "read", hold |-> <<>>, cin |-> <<>>, cout |-> <<>>, buf |-> <<>>,
     open |-> TRUE, capin |-> capin, capout |-> capout, capbuf |-> capbuf]

InitPipe ==
    /\ fs0 = BaseFs
    /\ fs = fs0
    /\ flags = NoFlags
    /\ srcs \in SeqsUpTo(PipeRecords, MaxRecs)
    /\ dsts = <<>>
    /\ hstat = <<>>
    /\ ps = <<>>
    /\ pc = "write"
    /\ i = 1
    /\ out = <<>>
    /\ status = -1
    /\ err = NoErr
    /\ log = <<>>
    /\ stdin = <<>>
    /\ text = <<>>
    /\ move = NoMove
    /\ result = NoRet
    /\ calls = <<>>
    /\ child \in {Spawned(a, b, c) : a, b, c \in 1..MaxCap}

PipeRest == <<fs, fs0, flags, srcs, hstat, ps, out, status, err, log,
              stdin, text, move, result, calls>>

\* lines 341-356: the next record goes into the BufWriter, which is flushed
\* first when it is full
ToolWrite ==
    /\ pc = "write"
    /\ i <= Len(srcs)
    /\ IF Len(child.buf) < child.capbuf
       THEN /\ child' = [child EXCEPT !.buf = Append(@, srcs[i])]
            /\ i' = i + 1
            /\ UNCHANGED pc
       ELSE /\ pc' = "flush"
            /\ UNCHANGED <<child, i>>
    /\ UNCHANGED <<dsts, PipeRest>>

\* line 357: the block ends and the BufWriter is dropped
ToolEndWrite ==
    /\ pc = "write"
    /\ i > Len(srcs)
    /\ pc' = "drop"
    /\ UNCHANGED <<child, i, dsts, PipeRest>>

\* BufWriter flushing: a record goes into the pipe when the pipe has room,
\* else write(2) blocks; with the buffer empty the loop goes on or, at the
\* drop, the helper's stdin is closed and the reading starts
ToolFlush ==
    /\ pc \in {"flush", "drop"}
    /\ IF child.buf # <<>>
       THEN /\ Len(child.cin) < child.capin
            /\ child' = [child EXCEPT !.cin = Append(@, Head(child.buf)),
                                      !.buf = Tail(@)]
            /\ UNCHANGED pc
       ELSE IF pc = "flush"
       THEN /\ pc' = "write"
            /\ UNCHANGED child
       ELSE /\ pc' = "read"
            /\ child' = [child EXCEPT !.open = FALSE]
    /\ UNCHANGED <<i, dsts, PipeRest>>

\* lines 360-380: a record is read from the helper, or end of file is met
\* when the helper has ended; with the pipe empty read(2) blocks
ToolRead ==
    /\ pc = "read"
    /\ IF child.cout # <<>>
       THEN /\ dsts' = Append(dsts, Head(child.cout))
            /\ child' = [child EXCEPT !.cout = Tail(@)]
            /\ UNCHANGED pc
       ELSE /\ child.at = "exited"
            /\ pc' = "wait"
            /\ UNCHANGED <<dsts, child>>
    /\ UNCHANGED <<i, hstat, PipeRest>>

\* lines 384-388: child.wait(); this helper ends with status 0
ToolWait ==
    /\ pc = "wait"
    /\ hstat' = <<0>>
    /\ pc' = "plan"
    /\ UNCHANGED <<fs, fs0, flags, srcs, dsts, ps, i, out, status, err, log>>
    /\ UNCHANGED fnvars

\* the helper reads a record, or ends at end of input; with its stdin empty
\* and open read(2) blocks
HelperRead ==
    /\ child.at = "read"
    /\ IF child.cin # <<>>
       THEN child' = [child EXCEPT !.hold = Head(child.cin), !.cin = Tail(@),
                                   !.at = "write"]
       ELSE /\ ~child.open
            /\ child' = [child EXCEPT !.at = "exited"]
    /\ UNCHANGED <<pc, i, dsts, PipeRest>>

\* the helper writes the record for what it read when its stdout has room,
\* else write(2) blocks
HelperWrite ==
    /\ child.at = "write"
    /\ Len(child.cout) < child.capout
    /\ child' = [child EXCEPT !.cout = Append(@, child.hold), !.hold = <<>>,
                              !.at = "read"]
    /\ UNCHANGED <<pc, i, dsts, PipeRest>>

NextPipe ==
    \/ ToolWrite
    \/ ToolEndWrite
    \/ ToolFlush
    \/ ToolRead
    \/ ToolWait
    \/ HelperRead
    \/ HelperWrite

\* each process goes on whenever it is not blocked in a system call
SpecPipe ==
    /\ InitPipe
    /\ [][NextPipe]_vars
    /\ WF_vars(ToolWrite \/ ToolEndWrite \/ ToolFlush \/ ToolRead \/ ToolWait)
    /\ WF_vars(HelperRead \/ HelperWrite)

----------------------------------------------------------------------------
(* run_indiv and run_multi, lines 266-389, byte by byte, with a helper that *)
(* rewrites each record on its own and ends each record it writes with the  *)
(* terminator.  Without -e.                                                 *)

\* lines 352-356: the byte run_multi writes after each record
Terminator(fl) == IF fl.nul /\ ~fl.encode THEN 0 ELSE 10

RECURSIVE Flatten(_)
Flatten(q) == IF q = <<>> THEN <<>> ELSE Head(q) \o Flatten(Tail(q))

\* the helpers: one that copies a record, one that puts the letter e after it
HelperKinds == {"copy", "suffix"}
Rewrite(kind, rec) == IF kind = "copy" THEN rec ELSE rec \o <<101>>

\* what the helper writes for the bytes it reads up to end of file: for each
\* record, ended by the terminator or by the end of file, the rewritten
\* record and the terminator
HelperOutput(kind, term, input) ==
    LET recs == Records(term = 0, input)
    IN  Flatten([k \in DOMAIN recs |-> Rewrite(kind, recs[k]) \o <<term>>])

\* run_indiv, lines 284-308, for one source: the source is written with no
\* terminator, and all the helper writes is the destination
run_indiv_one(fl, kind, src) == HelperOutput(kind, Terminator(fl), src)

\* run_multi, lines 341-380: the sources are written each with the
\* terminator, and what the helper writes is split at the terminators
run_multi_all(fl, kind, ss) ==
    LET input == Flatten([k \in DOMAIN ss |-> ss[k] \o <<Terminator(fl)>>])
    IN  Records(fl.nul /\ ~fl.encode, HelperOutput(kind, Terminator(fl), input))

\* the sources, as bytes: d, e and de
ModeRecords == {<<100>>, <<101>>, <<100, 101>>}

InitModes ==
    /\ fs0 = BaseFs
    /\ fs = fs0
    /\ flags \in {[NoFlags EXCEPT !.nul = b] : b \in BOOLEAN}
    /\ srcs \in SeqsUpTo(ModeRecords, MaxBatch)
    /\ dsts = <<>>
    /\ hstat = <<>>
    /\ ps = <<>>
    /\ pc = "helper"
    /\ i = 1
    /\ out = <<>>
    /\ status = -1
    /\ err = NoErr
    /\ log = <<>>
    /\ stdin = <<>>
    /\ text = <<>>
    /\ move = NoMove
    /\ result = NoRet
    /\ calls = <<>>
    /\ child \in {[at |-> "none", kind |-> k] : k \in HelperKinds}

ModesRest == <<fs, fs0, flags, srcs, ps, out, status, err, log,
               stdin, text, move, calls, child>>

\* the run without -i: run_multi gives the destinations
RunMultiBytes ==
    /\ pc = "helper"
    /\ result.fn = "none"
    /\ result' = [fn |-> "run_multi", val |-> run_multi_all(flags, child.kind, srcs)]
    /\ UNCHANGED <<pc, i, dsts, hstat, ModesRest>>

\* the run with -i on the same sources: one turn of the loop of run_indiv,
\* or its end
RunIndivBytes ==
    /\ pc = "helper"
    /\ result.fn = "run_multi"
    /\ IF i > Len(srcs)
       THEN /\ pc' = "plan"
            /\ i' = 1
            /\ UNCHANGED <<dsts, hstat>>
       ELSE /\ dsts' = Append(dsts, run_indiv_one(flags, child.kind, srcs[i]))
            /\ hstat' = Append(hstat, 0)
            /\ i' = i + 1
            /\ UNCHANGED pc
    /\ UNCHANGED <<result, ModesRest>>

NextModes == RunMultiBytes \/ RunIndivBytes

SpecModes == InitModes /\ [][NextModes]_vars

----------------------------------------------------------------------------
(* What the claims speak of *)

Range(q) == {q[k] : k \in DOMAIN q}

Overlap(a, b) == IsPrefix(a, b) \/ IsPrefix(b, a)

\* the canonical sources and the normalized destinations, in input order
CanonSrcs == [k \in DOMAIN srcs |-> normalize_path(srcs[k])]
NormDsts == [k \in DOMAIN dsts |-> normalize_path(dsts[k])]

HelperFailed == \E k \in DOMAIN hstat : hstat[k] # 0
HelperOver == pc # "helper"
Terminated == pc \in {"done", "exit"}

NoDuplicate(q) == \A j, k \in DOMAIN q : j # k => q[j] # q[k]
SourceMissing == \E k \in DOMAIN srcs : ~Exists(fs0, CanonSrcs[k])

\* a valid run: the helper succeeded and gave one destination for each
\* source, all sources exist, no source and no destination comes twice
ValidRun ==
    /\ HelperOver
    /\ ~HelperFailed
    /\ Len(dsts) = Len(srcs)
    /\ ~SourceMissing
    /\ NoDuplicate(CanonSrcs)
    /\ NoDuplicate(NormDsts)

\* a batch that validation has to refuse
InvalidBatch ==
    /\ HelperOver
    /\ ~HelperFailed
    /\ \/ Len(dsts) # Len(srcs)
       \/ SourceMissing
       \/ ~NoDuplicate(CanonSrcs)
       \/ ~NoDuplicate(NormDsts)

\* no path outside the scratch directory was created, changed or removed
Untouched ==
    \A q \in DOMAIN fs \cup DOMAIN fs0 :
        ~IsPrefix(ScratchRoot, q) =>
            q \in DOMAIN fs /\ q \in DOMAIN fs0 /\ fs[q] = fs0[q]

\* no source and no destination is the temporary area or lies in it
UserBatch ==
    /\ \A k \in DOMAIN srcs : ~Overlap(TempBase, CanonSrcs[k])
    /\ \A k \in DOMAIN dsts : ~Overlap(TempBase, NormDsts[k])

\* every destination is a free name in a directory that exists from the
\* start and is no source
FreeDestinations ==
    \A k \in DOMAIN dsts :
        /\ NormDsts[k] # <<>>
        /\ ~Exists(fs0, NormDsts[k])
        /\ IsDir(fs0, Parent(NormDsts[k]))
        /\ \A j \in DOMAIN srcs : ~IsPrefix(CanonSrcs[j], Parent(NormDsts[k]))

\* the places in log of the calls of move_path for pair k in a phase
CallsAt(phase, k) ==
    {n \in DOMAIN log : log[n].phase = phase /\ log[n].k = k}
MovedAt(phase, k) == {n \in CallsAt(phase, k) : log[n].ok}

----------------------------------------------------------------------------
(* C1: in a valid run that is not a dry run, at termination every           *)
(* destination exists and, in the move variant, every source that is not a  *)
(* destination is gone; in the copy variant the sources exist too.  Stated  *)
(* for batches outside the temporary area whose destinations are free names *)
(* in directories that exist and are not moved.                             *)
C1_ValidRunRealizesSet ==
    (Terminated /\ ValidRun /\ ~flags.dryrun /\ UserBatch /\ FreeDestinations) =>
        /\ \A k \in DOMAIN dsts : Exists(fs, NormDsts[k])
        /\ flags.mcp => \A k \in DOMAIN srcs : Exists(fs, CanonSrcs[k])
        /\ ~flags.mcp =>
              \A k \in DOMAIN srcs :
                  CanonSrcs[k] \notin Range(NormDsts) => ~Exists(fs, CanonSrcs[k])

PermutationRun ==
    /\ ValidRun
    /\ ~flags.dryrun
    /\ srcs # <<>>
    /\ Range(CanonSrcs) = Range(NormDsts)
    /\ \A k \in DOMAIN srcs : IsFile(fs0, CanonSrcs[k])

(* C2: when the destinations of a set of file sources are a permutation of  *)
(* these sources, the run ends with status 0 and each destination holds the *)
(* content its source had when the run began; until then a source not yet   *)
(* moved holds its own content and no content is lost outside the backup.   *)
C2_PermutationKeepsContents ==
    PermutationRun =>
        /\ Terminated =>
              /\ status = 0
              /\ \A k \in DOMAIN srcs : fs[NormDsts[k]] = fs0[CanonSrcs[k]]
        /\ pc = "phase1" =>
              \A k \in i..Len(ps) : Exists(fs, ps[k].s) /\ fs[ps[k].s] = fs0[ps[k].s]
        /\ \A k \in DOMAIN srcs :
              \E q \in DOMAIN fs :
                  ~IsPrefix(CacheDir, q) /\ fs[q] = fs0[CanonSrcs[k]]

\* a cycle of three files was moved
C2_Witness ==
    /\ PermutationRun
    /\ pc = "done"
    /\ ~flags.mcp
    /\ Len(srcs) = 3
    /\ \A k \in DOMAIN srcs : CanonSrcs[k] # NormDsts[k]

(* C3: in Phase 1, when p.src is a strict ancestor of q.src, every call of  *)
(* move_path for p comes after q has been moved to its scratch path.        *)
C3_DeepestSourceFirst ==
    \A p, q \in DOMAIN ps :
        StrictAncestor(ps[p].s, ps[q].s) =>
            \A n \in CallsAt(1, p) : \E m \in MovedAt(1, q) : m < n

\* a directory and an entry of it have both been moved to scratch
C3_Witness ==
    /\ ~flags.mcp
    /\ \E p, q \in DOMAIN ps :
        /\ StrictAncestor(ps[p].s, ps[q].s)
        /\ MovedAt(1, p) # {}
        /\ MovedAt(1, q) # {}

(* C4: in Phase 2, when p.dst is a strict ancestor of q.dst, q is moved to  *)
(* its destination only after p has been moved to its destination.  Stated *)
(* for the move variant and batches outside the temporary area.             *)
C4_ShallowestDestinationFirst ==
    \A p, q \in DOMAIN ps :
        (UserBatch /\ ~flags.mcp /\ StrictAncestor(ps[p].d, ps[q].d)) =>
            \A n \in MovedAt(2, q) : \E m \in MovedAt(2, p) : m < n

(* C5: in an accepted rename set the scratch paths are pairwise distinct    *)
(* and none equals, contains or lies inside a source or a destination.      *)
C5_ScratchDisjoint ==
    /\ \A p, q \in DOMAIN ps : p # q => ps[p].t # ps[q].t
    /\ \A p, q \in DOMAIN ps :
          ~Overlap(ps[p].t, ps[q].s) /\ ~Overlap(ps[p].t, ps[q].d)

ValidationKinds ==
    {"SourceMissing", "DuplicateSource", "DuplicateDestination", "SourceDestinationCount"}

(* C6: a missing source, a source or destination listed twice and a wrong   *)
(* count of destinations are each reported before any mutation: when the   *)
(* error is raised, and in every state of a run on such a batch, no path    *)
(* outside the scratch directory differs from the start and no move has     *)
(* been made; such a run ends in one of these errors.                       *)
C6_ValidationBeforeMutation ==
    /\ (pc = "exit" /\ err.kind \in ValidationKinds) =>
          Untouched /\ log = <<>> /\ ~Exists(fs, CacheDir)
    /\ InvalidBatch =>
          /\ Untouched /\ log = <<>>
          /\ Terminated => err.kind \in ValidationKinds

\* a destination given twice was refused after the scratch directory was made
C6_Witness ==
    /\ pc = "exit"
    /\ err.kind = "DuplicateDestination"
    /\ Exists(fs, ScratchRoot)
    /\ Len(srcs) = 2

\* the duplicates of the batch, as the builder meets them in input order
RECURSIVE DuplicatesFrom(_, _, _)
DuplicatesFrom(k, seen_src, seen_dst) ==
    IF k > Len(srcs) THEN {}
    ELSE IF CanonSrcs[k] \in seen_src
    THEN {[kind |-> "DuplicateSource", path |-> CanonSrcs[k]]}
            \cup DuplicatesFrom(k + 1, seen_src, seen_dst)
    ELSE IF NormDsts[k] \in seen_dst
    THEN {[kind |-> "DuplicateDestination", path |-> NormDsts[k]]}
            \cup DuplicatesFrom(k + 1, seen_src \cup {CanonSrcs[k]}, seen_dst)
    ELSE DuplicatesFrom(k + 1, seen_src \cup {CanonSrcs[k]},
                        seen_dst \cup {NormDsts[k]})

(* C7: when the build fails on duplicates, the failure reported names every *)
(* duplicate source and every duplicate destination of the batch.           *)
C7_EveryDuplicateReported ==
    (pc = "exit" /\ err.kind \in {"DuplicateSource", "DuplicateDestination"}) =>
        DuplicatesFrom(1, {}, {}) \subseteq {err}

NestedRenameRun ==
    /\ ValidRun
    /\ ~flags.dryrun /\ ~flags.mcp
    /\ fs0 = MakeFs("dirf", "none")
    /\ \E k \in DOMAIN srcs : CanonSrcs[k] = <<"d">> /\ NormDsts[k] = <<"e">>
    /\ \E k \in DOMAIN srcs : CanonSrcs[k] = <<"d", "f">> /\ NormDsts[k] = <<"d", "g">>

(* C8: with d and d/f both sources, d renamed to e and d/f to d/g, the run  *)
(* succeeds; after it e is the former directory d and the former d/f is at  *)
(* d/g, below a directory d that the tool created.                          *)
C8_NestedRenameSucceeds ==
    (NestedRenameRun /\ Terminated) =>
        /\ status = 0
        /\ IsDir(fs, <<"e">>)
        /\ IsDir(fs, <<"d">>)
        /\ Exists(fs, <<"d", "g">>) /\ fs[<<"d", "g">>] = fs0[<<"d", "f">>]

(* C9: once a helper process has ended with a non-zero status the tool has  *)
(* exited with status 1; no later helper was run, the rename set was not    *)
(* built, no scratch or backup directory was made and no path was moved.    *)
C9_HelperFailureStopsRun ==
    HelperFailed =>
        /\ pc = "exit" /\ status = 1
        /\ hstat[Len(hstat)] # 0
        /\ \A k \in 1..(Len(hstat) - 1) : hstat[k] = 0
        /\ ps = <<>> /\ log = <<>>
        /\ fs = fs0
        /\ ~Exists(fs, ScratchRoot) /\ ~Exists(fs, CacheDir)

\* in individual mode the helper of the second source failed
C9_Witness ==
    /\ flags.individual
    /\ Len(hstat) = 2
    /\ hstat[2] # 0
    /\ pc = "exit"

MoveLines ==
    SelectSeq(out, LAMBDA l : l.verb \in {"renamed", "copied"} /\ ~IsPrefix(CacheDir, l.to))

(* C10: a dry run changes no path outside the scratch directory, with or    *)
(* without backup, and when it ends it has written one line for each pair   *)
(* of the rename set, naming the pair's source and destination.             *)
C10_DryRunMutatesNothing ==
    (flags.dryrun /\ srcs # <<>>) =>
        /\ Untouched
        /\ pc = "done" =>
              MoveLines = [k \in DOMAIN ps |-> Line(Verb(flags), ps[k].s, ps[k].d)]

----------------------------------------------------------------------------
\* the pairs Phase 2 has moved so far, in the order it moved them
Phase2Done == SelectSeq(log, LAMBDA c : c.phase = 2 /\ c.ok)

(* C11: with -v, outside a dry run, the trace holds for each pair one line   *)
(* of the rename or copy, written after the Phase 2 move of that pair and    *)
(* naming its source and its destination; Phase 1 writes no line and no line *)
(* names a path in the scratch directory.  Stated for batches outside the    *)
(* temporary area.                                                           *)
C11_VerboseTraceNamesPairs ==
    (flags.verbose /\ ~flags.dryrun /\ UserBatch) =>
        /\ \A n \in DOMAIN MoveLines :
              /\ ~IsPrefix(ScratchRoot, MoveLines[n].from)
              /\ ~IsPrefix(ScratchRoot, MoveLines[n].to)
        /\ MoveLines = [n \in DOMAIN Phase2Done |->
                           Line(Verb(flags), ps[Phase2Done[n].k].s, ps[Phase2Done[n].k].d)]

----------------------------------------------------------------------------
\* the calls of move_path that failed
FailedCalls == {n \in DOMAIN log : ~log[n].ok}

(* C13: when a move fails the run stops, no later move is tried, and the     *)
(* scratch directory and, with backup on, the backup directory are left in   *)
(* place; when every move succeeded and the run has ended, both directories  *)
(* are gone.                                                                 *)
C13_FailureKeepsSuccessCleans ==
    /\ FailedCalls # {} =>
          /\ FailedCalls = {Len(log)}
          /\ pc = "exit"
          /\ Exists(fs, ScratchRoot)
          /\ flags.backup => Exists(fs, CacheDir)
    /\ (Terminated /\ log # <<>> /\ FailedCalls = {}) =>
          /\ pc = "done"
          /\ ~Exists(fs, ScratchRoot)
          /\ ~Exists(fs, CacheDir)

\* a run with backup stopped by a failed Phase 2 move: the source is in the
\* scratch directory and its copy in the backup directory
C13_Witness ==
    /\ flags.backup
    /\ pc = "exit"
    /\ FailedCalls # {}
    /\ log[Len(log)].phase = 2
    /\ \E k \in DOMAIN ps :
          /\ IsFile(fs, ps[k].t)
          /\ IsFile(fs, CacheDir \o ps[k].s)

(* C14: with backup on, from the first Phase 1 move until the backup         *)
(* directory is removed, every source of the rename set has its snapshot     *)
(* under the backup directory: a file source a file there with the content   *)
(* the source had at the start, a directory source a directory.              *)
C14_BackupBeforeFirstMove ==
    (flags.backup /\ (pc = "phase1" \/ (log # <<>> /\ pc # "done"))) =>
        \A k \in DOMAIN ps :
            /\ Exists(fs, CacheDir \o ps[k].s)
            /\ fs[CacheDir \o ps[k].s] = fs0[ps[k].s]

\* Phase 1 is about to make its first move of a directory and a file in it
C14_Witness ==
    /\ flags.backup
    /\ pc = "phase1"
    /\ log = <<>>
    /\ \E j, k \in DOMAIN ps :
          /\ IsDir(fs0, ps[j].s)
          /\ IsFile(fs0, ps[k].s)
          /\ fs[CacheDir \o ps[k].s] = fs0[ps[k].s]

----------------------------------------------------------------------------
\* q is a source of the batch or lies in one
InSource(q) == \E k \in DOMAIN srcs : IsPrefix(CanonSrcs[k], q)

(* C20: a file that exists when the run begins and is no source keeps its    *)
(* content and is not removed, also when a destination names it.  Stated for *)
(* batches outside the temporary area.                                       *)
C20_ExistingFileKept ==
    UserBatch =>
        \A q \in DOMAIN fs0 :
            (IsFile(fs0, q) /\ ~InSource(q) /\ ~Overlap(TempBase, q)) =>
                Exists(fs, q) /\ fs[q] = fs0[q]

----------------------------------------------------------------------------
(* C15: decode_string(encode_string(s)) = s for every string s, and          *)
(* encode_string gives different strings for different s.                    *)
C15_CodecRoundTrip ==
    /\ result.fn = "round_trip" =>
          \A k \in DOMAIN text : result.val[k] = [ok |-> TRUE, str |-> text[k]]
    /\ result.fn = "encode_string" =>
          \A j, k \in DOMAIN text : result.val[j] = result.val[k] => text[j] = text[k]

\* a backslash followed by n and a newline went through both functions
C15_Witness ==
    /\ result.fn = "round_trip"
    /\ text = <<(<<Backslash, "n">>), <<Newline>>>>
    /\ result.arg[1] = <<Backslash, Backslash, "n">>
    /\ result.arg[2] = <<Backslash, "n">>

----------------------------------------------------------------------------
\* reading s from character k on, a backslash is met that is the last
\* character or is followed by none of backslash, n, t
RECURSIVE BadEscapeFrom(_, _)
BadEscapeFrom(s, k) ==
    IF k > Len(s) THEN FALSE
    ELSE IF s[k] # Backslash THEN BadEscapeFrom(s, k + 1)
    ELSE IF k = Len(s) THEN TRUE
    ELSE IF s[k + 1] \in {Backslash, "n", "t"} THEN BadEscapeFrom(s, k + 2)
    ELSE TRUE

(* C17: decode_string fails, and gives no string, for every input in which   *)
(* a backslash is the last character or is followed by a character other     *)
(* than backslash, n and t.                                                  *)
C17_DecodeRejectsBadEscape ==
    result.fn = "decode_string" =>
        \A k \in DOMAIN text : BadEscapeFrom(text[k], 1) => ~result.val[k].ok

----------------------------------------------------------------------------
\* every call of Move::add before call n returned Ok
AllOkBefore(n) == \A j \in 1..(n - 1) : calls[j].ret = "Ok"

\* an earlier call had the same source, or the same destination, as call n,
\* component by component
SameSrcBefore(n) ==
    \E j \in 1..(n - 1) : Components(calls[j].src) = Components(calls[n].src)
SameDstBefore(n) ==
    \E j \in 1..(n - 1) : Components(calls[j].dst) = Components(calls[n].dst)

\* what the claim says call n returns
Expected(n) ==
    IF SameSrcBefore(n) THEN "DupSrc"
    ELSE IF SameDstBefore(n) THEN "DupDst"
    ELSE "Ok"

----------------------------------------------------------------------------
\* the links of a Move: for each node that has one, its path with the paths
\* of its destination and of its source (0 for none)
Links(mv) ==
    LET v == mv.data.vec
        Cur(n) == IF n = 0 THEN 0 ELSE At(v, n).info.cur
    IN  {[cur |-> v[k].info.cur, dst |-> Cur(v[k].info.dst), src |-> Cur(v[k].info.src)] :
            k \in {j \in DOMAIN v : v[j].info.dst # 0 \/ v[j].info.src # 0}}

Dup == {"DupSrc", "DupDst"}

(* C19: Move::add hands the vector of nodes and the free list back to the    *)
(* Move on every return: after a call that returned DupSrc or DupDst the     *)
(* Move holds its nodes, the links are those from before the call, and a     *)
(* further call runs as usual.                                               *)
C19_AddRestoresOnError ==
    /\ (calls # <<>> /\ calls[Len(calls)].ret \in Dup) =>
          /\ move.data.some
          /\ Links(move) = Links(calls[Len(calls)].before)
    /\ \A n \in DOMAIN calls :
          (n > 1 /\ calls[n - 1].ret \in Dup) => calls[n].ret # "panic"

----------------------------------------------------------------------------
\* standard input holds an empty record: a terminator is its first byte or
\* follows a terminator
EmptyRecord ==
    \E k \in DOMAIN stdin :
        /\ is_terminal(flags.nul, stdin[k])
        /\ k = 1 \/ is_terminal(flags.nul, stdin[k - 1])

(* C16: an empty record on standard input makes the run fail with an error;  *)
(* it is never passed over and never becomes a source.  Stated for input     *)
(* that holds a record which is not empty as well.                           *)
C16_EmptyRecordFails ==
    /\ (EmptyRecord /\ pc # "read") => \A k \in DOMAIN srcs : srcs[k] # <<>>
    /\ (EmptyRecord /\ Terminated /\ srcs # <<>>) => status = 1

----------------------------------------------------------------------------
\* the tool is in write(2) on a full pipe while the helper is in write(2) on
\* a full pipe: neither can go on
MutualBlock ==
    /\ pc \in {"flush", "drop"}
    /\ child.buf # <<>>
    /\ Len(child.cin) = child.capin
    /\ child.at = "write"
    /\ Len(child.cout) = child.capout

\* no destination is read before every record was written and the helper's
\* stdin closed
WritesBeforeReads ==
    (dsts # <<>> \/ pc \in {"read", "wait", "plan"}) =>
        /\ ~child.open
        /\ child.buf = <<>>
        /\ i > Len(srcs)

(* C21: in batch mode the exchange with the helper ends, whatever the number *)
(* of sources and the capacity of the pipes, for a helper that writes a      *)
(* record for each record as soon as it has read it: run_multi comes to its  *)
(* end with the helper waited for.                                           *)
C21_ExchangeTerminates == <>(pc = "plan")

----------------------------------------------------------------------------
(* C22: for a helper that rewrites each record on its own and ends each      *)
(* record it writes with the terminator, the run with -i gives the           *)
(* destinations that the run over the whole batch gives: as many, in the     *)
(* same order, the same strings without the terminator.                      *)
C22_IndividualEqualsBatch ==
    (pc = "plan" /\ result.fn = "run_multi") => dsts = result.val

====
